---- MODULE Spec2Model ----
(***************************************************************************)
(* Model of src/minft1.py (WalletServer): the Deposit Watcher              *)
(* (monitor_deposit_task), the Payout Scheduler (payout_task) and mint,    *)
(* running as two asyncio tasks of one process over one task table.        *)
(* Each action is the code between two awaits of one coroutine.            *)
(* The task table (db_api.DatabaseApi) is not part of src/; its three      *)
(* operations are modelled from the Task Store section of the spec.        *)
(***************************************************************************)
EXTENDS Integers, Sequences, FiniteSets, TLC

(* ------------------------------ bounds -------------------------------- *)
\* longest list of coin records one ledger query returns
MaxPoll == 2
\* number of times the process is stopped and started again
MaxRestarts == 1

(* ------------------------- program constants -------------------------- *)
\* cfg.wallet.price_xch
Price == 2
\* cfg.collection.size
CollectionSize == 3
\* the size an image file has to exceed
MinImageBytes == 10000
\* task status values: 1 is written by payout_task, the others are the
\* Task Store's remaining enum values
Pending == 0
Minting == 1
Minted == 2
Failed == 3
\* the first mint_id the Task Store assigns
FirstMintId == 0

\* Python's None
None == [none |-> TRUE]

(* ------------------------------ ledger -------------------------------- *)
\* The coins the full node may report at the receive address: c1 and c2 are
\* two outputs of the same parent spend, c4 pays less than the price.
Coins ==
    { [name |-> "c1", parent_coin_info |-> "P1", amount |-> Price],
      [name |-> "c2", parent_coin_info |-> "P1", amount |-> Price + 1],
      [name |-> "c3", parent_coin_info |-> "P2", amount |-> Price],
      [name |-> "c4", parent_coin_info |-> "P3", amount |-> Price - 1],
      [name |-> "c5", parent_coin_info |-> "P4", amount |-> Price] }

Parents == { c.parent_coin_info : c \in Coins }

\* parent_coin.coin.puzzle_hash: the puzzle hash the parent coin was locked to
PuzzleHashOf(parent) ==
    CASE parent = "P1" -> "h1"
      [] parent = "P2" -> "h2"
      [] parent = "P3" -> "h3"
      [] OTHER         -> "h4"

\* encode_puzzle_hash(to_puzzle_hash, "xch")
encode_puzzle_hash(ph, prefix) == <<prefix, ph>>

\* parent_id.hex()
Hex(name) == <<"hex", name>>

\* what get_coin_records_by_puzzle_hash may return: any list of distinct
\* coins of at most MaxPoll records
RECURSIVE ListsOf(_, _)
ListsOf(S, n) ==
    IF n = 0 THEN { <<>> }
    ELSE { <<>> } \cup
         { <<c>> \o l : c \in S, l \in ListsOf(S, n - 1) }

NoRepeat(l) == \A i, j \in 1..Len(l) : i # j => l[i] # l[j]

PollResults == { l \in ListsOf(Coins, MaxPoll) : NoRepeat(l) }

(* ----------------------------- task store ----------------------------- *)
\* a lookup that never finds a task
get_mint_task_blind(table, parent_id) == None

\* DatabaseApi.get_mint_task(parent_id): the task with that parent_id, or None
get_mint_task(table, parent_id) ==
    IF \E i \in 1..Len(table) : table[i].parent_id = parent_id
    THEN table[CHOOSE i \in 1..Len(table) : table[i].parent_id = parent_id]
    ELSE None

\* the next mint_id counted from 1
NextMintId_one(table) == FirstMintId + Len(table) + 1

\* the next mint_id: gap-free from FirstMintId in creation order
NextMintId(table) == FirstMintId + Len(table)

\* the uniqueness constraint on parent_id
DuplicateKind(table, parent_id) == get_mint_task(table, parent_id) # None

\* DatabaseApi.create_mint_task(parent_id, to_puzzle_hash): the table with a
\* new Pending task appended (called only when DuplicateKind is false)
create_mint_task(table, parent_id, to_puzzle_hash) ==
    Append(table, [parent_id  |-> parent_id,
                   to_address |-> to_puzzle_hash,
                   mint_id    |-> NextMintId(table),
                   status     |-> Pending])

\* insertion of a row into a list ordered by mint_id ascending
RECURSIVE InsertByMintId(_, _)
InsertByMintId(row, l) ==
    IF l = <<>> THEN <<row>>
    ELSE IF row.mint_id < Head(l).mint_id THEN <<row>> \o l
    ELSE <<Head(l)>> \o InsertByMintId(row, Tail(l))

RECURSIVE OrderByMintId(_)
OrderByMintId(l) ==
    IF l = <<>> THEN <<>>
    ELSE InsertByMintId(Head(l), OrderByMintId(Tail(l)))

IsPending(row) == row.status = Pending

\* DatabaseApi.get_pending_tasks(): the Pending tasks, ordered by mint_id
get_pending_tasks(table) == OrderByMintId(SelectSeq(table, IsPending))

\* an update without its row filter: every Pending row gets the status
UpdateStatus_all(table, row, s) ==
    [ i \in 1..Len(table) |->
        IF table[i].status = Pending
        THEN [table[i] EXCEPT !.status = s]
        ELSE table[i] ]

\* an update that is built and never applied
UpdateStatus_lost(table, row, s) == table

\* an update that writes the Pending status again
UpdateStatus_pending(table, row, s) ==
    [ i \in 1..Len(table) |->
        IF table[i].mint_id = row.mint_id
        THEN [table[i] EXCEPT !.status = Pending]
        ELSE table[i] ]

\* task.update(status=s).apply(): the row of that task gets the status
UpdateStatus(table, row, s) ==
    [ i \in 1..Len(table) |->
        IF table[i].mint_id = row.mint_id
        THEN [table[i] EXCEPT !.status = s]
        ELSE table[i] ]

(* ------------------------------- state -------------------------------- *)
VARIABLES
    tasks,             \* the task table, rows in insertion order
    wpc,               \* where monitor_deposit_task stands
    coin_records,      \* the records of the current poll not yet iterated
    ppc,               \* where payout_task stands
    standard_balance,  \* payout_task's local: spendable_balance
    standard_total,    \* payout_task's local: confirmed_wallet_balance
    queue_len,         \* payout_task's local: len(tasks) of the first read
    task,              \* payout_task's local: the row it took from the list
    image,             \* the image file payout_task looked at, or None
    attempt,           \* per dispatched mint_id: the calls made for it
    sold_out_at,       \* history: the run of the process (its restarts) in
                       \* which the "fully minted" branch was first taken,
                       \* -1 while it never was
    restarts,          \* number of process restarts so far
    peer_pc,           \* where monitor_deposit_task of a second process of
                       \* the program over the same table stands ("off":
                       \* no such process)
    peer_records       \* its records of the current poll not yet iterated

peer_vars == <<peer_pc, peer_records>>

vars == <<tasks, wpc, coin_records, ppc, standard_balance, standard_total,
          queue_len, task, image, attempt, sold_out_at, restarts, peer_vars>>

watcher_vars == <<wpc, coin_records>>
payout_vars == <<ppc, standard_balance, standard_total, queue_len, task,
                 image>>

\* what get_wallet_balance(1) may report: nothing, funds of which a part is
\* unconfirmed, settled funds
Balances ==
    { [spendable_balance |-> 0,  confirmed_wallet_balance |-> 0],
      [spendable_balance |-> 5,  confirmed_wallet_balance |-> 10],
      [spendable_balance |-> 10, confirmed_wallet_balance |-> 10] }

\* the image file at image_path: absent, or present with some size
Images ==
    { [is_file |-> FALSE, bytes |-> 0],
      [is_file |-> TRUE,  bytes |-> MinImageBytes],
      [is_file |-> TRUE,  bytes |-> MinImageBytes + 1] }

NoCalls == [dispatched |-> 0, image |-> "none", metadata |-> "none",
            mint_nft |-> "none"]

\* the calls made so far for a mint_id
CallsOf(mint_id) ==
    IF mint_id \in DOMAIN attempt THEN attempt[mint_id] ELSE NoCalls

Init ==
    /\ tasks = <<>>
    /\ wpc = "poll"
    /\ coin_records = <<>>
    /\ ppc = "sleep"
    /\ standard_balance = 0
    /\ standard_total = 0
    /\ queue_len = 0
    /\ task = None
    /\ image = None
    /\ attempt = <<>>
    /\ sold_out_at = -1
    /\ restarts = 0
    /\ peer_pc = "off"
    /\ peer_records = <<>>

(* --------------------- monitor_deposit_task ---------------------------- *)
\* the coin record the for loop is at
coin_record == Head(coin_records)

\* `if task is not None: continue`
TaskExists(found) == found # None

\* the price test with <= for <
NotEnough_exclusive(received_amount) == received_amount <= Price

\* `if received_amount < cfg.wallet.price_xch: continue`
NotEnough(received_amount) == received_amount < Price

\* get_coin_records_by_puzzle_hash returns the records of this poll
WatcherPoll ==
    /\ wpc = "poll"
    /\ \E records \in PollResults : coin_records' = records
    /\ wpc' = "for"
    /\ UNCHANGED <<tasks, payout_vars, attempt, sold_out_at, restarts, peer_vars>>

\* the records are exhausted: sleep(30), then the next poll
WatcherSleep ==
    /\ wpc = "for"
    /\ coin_records = <<>>
    /\ wpc' = "poll"
    /\ UNCHANGED <<tasks, coin_records, payout_vars, attempt, sold_out_at,
                   restarts, peer_vars>>

\* get_coin_record_by_name returns the parent coin of the next record
WatcherFetchParent ==
    /\ wpc = "for"
    /\ coin_records # <<>>
    /\ wpc' = "get_task"
    /\ UNCHANGED <<tasks, coin_records, payout_vars, attempt, sold_out_at,
                   restarts, peer_vars>>

\* a watcher that puts the task it finds back to Pending before it continues
WatcherGetTask_requeue ==
    /\ wpc = "get_task"
    /\ LET parent_id == coin_record.parent_coin_info
           found == get_mint_task(tasks, Hex(parent_id))
       IN  IF TaskExists(found)
           THEN /\ tasks' = [ i \in 1..Len(tasks) |->
                               IF tasks[i].parent_id = Hex(parent_id)
                               THEN [tasks[i] EXCEPT !.status = Pending]
                               ELSE tasks[i] ]
                /\ coin_records' = Tail(coin_records)
                /\ wpc' = "for"
           ELSE /\ tasks' = tasks
                /\ IF NotEnough(coin_record.amount)
                   THEN /\ coin_records' = Tail(coin_records)
                        /\ wpc' = "for"
                   ELSE /\ coin_records' = coin_records
                        /\ wpc' = "create"
    /\ UNCHANGED <<payout_vars, attempt, sold_out_at, restarts, peer_vars>>

\* get_mint_task returns; the two `continue` tests follow without an await
WatcherGetTask ==
    /\ wpc = "get_task"
    /\ LET parent_id == coin_record.parent_coin_info
           found == get_mint_task(tasks, Hex(parent_id))
       IN  IF TaskExists(found) \/ NotEnough(coin_record.amount)
           THEN /\ coin_records' = Tail(coin_records)
                /\ wpc' = "for"
           ELSE /\ coin_records' = coin_records
                /\ wpc' = "create"
    /\ UNCHANGED <<tasks, payout_vars, attempt, sold_out_at, restarts, peer_vars>>

\* create_mint_task runs; a DuplicateKind error is not caught and ends the task
WatcherCreate ==
    /\ wpc = "create"
    /\ LET parent_id == coin_record.parent_coin_info
           to_address == encode_puzzle_hash(PuzzleHashOf(parent_id), "xch")
       IN  IF DuplicateKind(tasks, Hex(parent_id))
           THEN /\ tasks' = tasks
                /\ wpc' = "crashed"
                /\ coin_records' = coin_records
           ELSE /\ tasks' = create_mint_task(tasks, Hex(parent_id), to_address)
                /\ wpc' = "for"
                /\ coin_records' = Tail(coin_records)
    /\ UNCHANGED <<payout_vars, attempt, sold_out_at, restarts, peer_vars>>

\* a full node RPC call raises: nothing catches it, the task ends
WatcherRpcFails ==
    /\ \/ wpc = "poll"
       \/ wpc = "for" /\ coin_records # <<>>
    /\ wpc' = "crashed"
    /\ UNCHANGED <<tasks, coin_records, payout_vars, attempt, sold_out_at,
                   restarts, peer_vars>>

Watcher ==
    \/ WatcherPoll
    \/ WatcherSleep
    \/ WatcherFetchParent
    \/ WatcherGetTask
    \/ WatcherCreate
    \/ WatcherRpcFails

(* ---------------------------- payout_task ------------------------------ *)
\* the balance test with >= for >
Settled_zero(balance, total) == balance >= 0 /\ balance = total

\* `standard_balance > 0 and standard_balance == standard_total`
Settled(balance, total) == balance > 0 /\ balance = total

\* the newest pending task taken for the oldest
FirstTask_last(list) == list[Len(list)]

\* `task = tasks[0]`
FirstTask(list) == list[1]

\* the size assert with >= for >
ImageOk_atleast(file) == file.is_file /\ file.bytes >= MinImageBytes

\* the two asserts on the image file
ImageOk(file) == file.is_file /\ file.bytes > MinImageBytes

\* the collection size test without the +1
SoldOut_late(row) == row.mint_id >= CollectionSize

\* `if task.mint_id+1 >= cfg.collection.size`
SoldOut(row) == row.mint_id + 1 >= CollectionSize

\* the "fully minted" branch without its `continue`
AfterAsserts_fallthrough(row) == "update"

\* where the tick goes after the asserts: the "fully minted" branch sleeps
\* and continues, any other task is dispatched
AfterAsserts(row) == IF SoldOut(row) THEN "sold_out" ELSE "update"

\* the attempt log with one more dispatch of mint_id and no call yet
Dispatched(mint_id) ==
    (mint_id :> [NoCalls EXCEPT !.dispatched = CallsOf(mint_id).dispatched + 1])
        @@ attempt

\* the attempt log with the outcome of one call of the current task's mint
Called(call, outcome) ==
    [attempt EXCEPT ![task.mint_id] = [@ EXCEPT ![call] = outcome]]

\* sleep(10), then get_wallet_balance returns and the balance test runs
PayoutBalance ==
    /\ ppc = "sleep"
    /\ \E standard \in Balances :
          /\ standard_balance' = standard.spendable_balance
          /\ standard_total' = standard.confirmed_wallet_balance
          /\ ppc' = IF Settled(standard_balance', standard_total')
                    THEN "pending1" ELSE "sleep"
    /\ UNCHANGED <<tasks, watcher_vars, queue_len, task, image, attempt,
                   sold_out_at, restarts, peer_vars>>

\* the first get_pending_tasks returns: an empty list skips the tick
PayoutGetPending ==
    /\ ppc = "pending1"
    /\ queue_len' = Len(get_pending_tasks(tasks))
    /\ ppc' = IF queue_len' = 0 THEN "sleep" ELSE "pending2"
    /\ UNCHANGED <<tasks, watcher_vars, standard_balance, standard_total, task,
                   image, attempt, sold_out_at, restarts, peer_vars>>

\* the second get_pending_tasks returns; tasks[0], the asserts on its image
\* (found at mint_image_url or at get_image_path(mint_id)) and the collection
\* size test follow without an await
PayoutSelect ==
    /\ ppc = "pending2"
    /\ LET list == get_pending_tasks(tasks)
       IN  IF list = <<>>
           THEN /\ ppc' = "crashed"
                /\ UNCHANGED <<task, image, sold_out_at>>
           ELSE \E file \in Images :
                  /\ task' = FirstTask(list)
                  /\ image' = file
                  /\ IF ~ImageOk(file)
                     THEN /\ ppc' = "crashed"
                          /\ UNCHANGED sold_out_at
                     ELSE /\ ppc' = AfterAsserts(task')
                          /\ sold_out_at' = IF sold_out_at = -1 /\ SoldOut(task')
                                           THEN restarts ELSE sold_out_at
    /\ UNCHANGED <<tasks, watcher_vars, standard_balance, standard_total,
                   queue_len, attempt, restarts, peer_vars>>

\* sleep(30000) of the "fully minted" branch is over: continue
PayoutSoldOutSleep ==
    /\ ppc = "sold_out"
    /\ ppc' = "sleep"
    /\ UNCHANGED <<tasks, watcher_vars, standard_balance, standard_total,
                   queue_len, task, image, attempt, sold_out_at, restarts, peer_vars>>

\* task.update(status=1).apply() is done; mint is called next
PayoutUpdate ==
    /\ ppc = "update"
    /\ tasks' = UpdateStatus(tasks, task, Minting)
    /\ attempt' = Dispatched(task.mint_id)
    /\ ppc' = "publish"
    /\ UNCHANGED <<watcher_vars, standard_balance, standard_total, queue_len,
                   task, image, sold_out_at, restarts, peer_vars>>

\* mint without its two asserts: a failed store leaves its cid None and the
\* next call is made all the same
MintPublish_unasserted ==
    /\ ppc = "publish"
    /\ \E image_result \in {"ok", "fail"}, metadata_result \in {"ok", "fail"} :
          attempt' = [attempt EXCEPT
                         ![task.mint_id].image = image_result,
                         ![task.mint_id].metadata = metadata_result]
    /\ ppc' = "mint_nft"
    /\ UNCHANGED <<tasks, watcher_vars, standard_balance, standard_total,
                   queue_len, task, image, sold_out_at, restarts, peer_vars>>

\* mint up to its await: the image is stored, then the metadata; a store that
\* raises leaves its cid None and the assert after it ends payout_task
MintPublish ==
    /\ ppc = "publish"
    /\ \/ /\ attempt' = Called("image", "fail")
          /\ ppc' = "crashed"
       \/ /\ attempt' = [Called("image", "ok") EXCEPT
                            ![task.mint_id].metadata = "fail"]
          /\ ppc' = "crashed"
       \/ /\ attempt' = [Called("image", "ok") EXCEPT
                            ![task.mint_id].metadata = "ok"]
          /\ ppc' = "mint_nft"
    /\ UNCHANGED <<tasks, watcher_vars, standard_balance, standard_total,
                   queue_len, task, image, sold_out_at, restarts, peer_vars>>

\* wallet_client.mint_nft returns, and the loop starts over, or raises, and
\* payout_task ends; the task's row is not written in either case
MintNft ==
    /\ ppc = "mint_nft"
    /\ \/ /\ attempt' = Called("mint_nft", "ok")
          /\ ppc' = "sleep"
       \/ /\ attempt' = Called("mint_nft", "fail")
          /\ ppc' = "crashed"
    /\ UNCHANGED <<tasks, watcher_vars, standard_balance, standard_total,
                   queue_len, task, image, sold_out_at, restarts, peer_vars>>

\* get_wallet_balance raises: nothing catches it, the task ends
PayoutRpcFails ==
    /\ ppc = "sleep"
    /\ ppc' = "crashed"
    /\ UNCHANGED <<tasks, watcher_vars, standard_balance, standard_total,
                   queue_len, task, image, attempt, sold_out_at, restarts, peer_vars>>

Payout ==
    \/ PayoutBalance
    \/ PayoutGetPending
    \/ PayoutSelect
    \/ PayoutSoldOutSleep
    \/ PayoutUpdate
    \/ MintPublish
    \/ MintNft
    \/ PayoutRpcFails

(* ------------------------------ process -------------------------------- *)
\* the process ends (stop_all, or a kill) and main runs again: both tasks
\* start from their first line over the same task table
Restart ==
    /\ restarts < MaxRestarts
    /\ restarts' = restarts + 1
    /\ wpc' = "poll"
    /\ coin_records' = <<>>
    /\ ppc' = "sleep"
    /\ standard_balance' = 0
    /\ standard_total' = 0
    /\ queue_len' = 0
    /\ task' = None
    /\ image' = None
    /\ UNCHANGED <<tasks, attempt, sold_out_at, peer_vars>>

Next == Watcher \/ Payout \/ Restart

Spec == Init /\ [][Next]_vars

(* ------------------- a second process of the program ------------------- *)
\* main is run a second time over the same database: the steps of its
\* monitor_deposit_task are those of the first, on its own locals

own_vars == <<wpc, coin_records, payout_vars, attempt, sold_out_at, restarts>>

PeerStart ==
    /\ peer_pc = "off"
    /\ peer_pc' = "poll"
    /\ UNCHANGED <<tasks, peer_records, own_vars>>

PeerPoll ==
    /\ peer_pc = "poll"
    /\ \E records \in PollResults : peer_records' = records
    /\ peer_pc' = "for"
    /\ UNCHANGED <<tasks, own_vars>>

PeerSleep ==
    /\ peer_pc = "for"
    /\ peer_records = <<>>
    /\ peer_pc' = "poll"
    /\ UNCHANGED <<tasks, peer_records, own_vars>>

PeerFetchParent ==
    /\ peer_pc = "for"
    /\ peer_records # <<>>
    /\ peer_pc' = "get_task"
    /\ UNCHANGED <<tasks, peer_records, own_vars>>

PeerGetTask ==
    /\ peer_pc = "get_task"
    /\ LET parent_id == Head(peer_records).parent_coin_info
           found == get_mint_task(tasks, Hex(parent_id))
       IN  IF TaskExists(found) \/ NotEnough(Head(peer_records).amount)
           THEN /\ peer_records' = Tail(peer_records)
                /\ peer_pc' = "for"
           ELSE /\ peer_records' = peer_records
                /\ peer_pc' = "create"
    /\ UNCHANGED <<tasks, own_vars>>

PeerCreate ==
    /\ peer_pc = "create"
    /\ LET parent_id == Head(peer_records).parent_coin_info
           to_address == encode_puzzle_hash(PuzzleHashOf(parent_id), "xch")
       IN  IF DuplicateKind(tasks, Hex(parent_id))
           THEN /\ tasks' = tasks
                /\ peer_pc' = "crashed"
                /\ peer_records' = peer_records
           ELSE /\ tasks' = create_mint_task(tasks, Hex(parent_id), to_address)
                /\ peer_pc' = "for"
                /\ peer_records' = Tail(peer_records)
    /\ UNCHANGED own_vars

PeerRpcFails ==
    /\ \/ peer_pc = "poll"
       \/ peer_pc = "for" /\ peer_records # <<>>
    /\ peer_pc' = "crashed"
    /\ UNCHANGED <<tasks, peer_records, own_vars>>

Peer ==
    \/ PeerStart
    \/ PeerPoll
    \/ PeerSleep
    \/ PeerFetchParent
    \/ PeerGetTask
    \/ PeerCreate
    \/ PeerRpcFails

\* the two watchers over the one table; the schedulers, which create no
\* task, stand still
NextWatchers == Watcher \/ Peer

SpecWatchers == Init /\ [][NextWatchers]_vars

(* ------------------------------ claims --------------------------------- *)
Rows == 1..Len(tasks)

\* the row of the task with that mint_id has one of the statuses
StatusIn(mint_id, statuses) ==
    \A i \in Rows : tasks[i].mint_id = mint_id => tasks[i].status \in statuses

\* a step moves row i out of Pending
Dispatches(i) == tasks[i].status = Pending /\ tasks'[i].status # Pending

\* C1: in every reachable state at most one task exists per parent_id,
\* whatever deposits the watcher observes, again in later polls or several
\* of one parent in one poll.
C1_OneTaskPerParent ==
    \A i, j \in Rows : tasks[i].parent_id = tasks[j].parent_id => i = j

\* the deposit c2 of parent P1 is looked up while the task of P1, made from
\* the deposit c1 of an earlier observation, exists
C1_Witness ==
    /\ wpc = "get_task"
    /\ coin_record.name = "c2"
    /\ get_mint_task(tasks, Hex("P1")) # None
    /\ Len(tasks) >= 2

\* C2: at any instant at most one task has status Minting.
C2_AtMostOneMinting ==
    Cardinality({ i \in Rows : tasks[i].status = Minting }) <= 1

\* C3: the scheduler never marks a task Minting while a task it dispatched
\* before is not recorded as Minted or Failed.
C3_NoOverlappingAttempts ==
    [][ (\E i \in Rows : Dispatches(i))
            => \A m \in DOMAIN attempt : StatusIn(m, {Minted, Failed}) ]_vars

\* C4: once the scheduler is back at the top of its loop, every task whose
\* image store, metadata store and mint_nft all succeeded is Minted.
C4_SuccessIsMinted ==
    ppc = "sleep" =>
        \A i \in Rows :
            CallsOf(tasks[i].mint_id).mint_nft = "ok"
                => tasks[i].status = Minted

\* a store or the wallet mint of the attempt for that mint_id failed
AttemptFailed(mint_id) ==
    \/ CallsOf(mint_id).image = "fail"
    \/ CallsOf(mint_id).metadata = "fail"
    \/ CallsOf(mint_id).mint_nft = "fail"

\* C5: once an attempt has ended in a failed image store, metadata store or
\* wallet mint, its task is Failed, not Minting.
C5_FailureIsFailed ==
    ppc \in {"sleep", "crashed"} =>
        \A i \in Rows :
            AttemptFailed(tasks[i].mint_id) => tasks[i].status = Failed

\* C6: a task with mint_id >= collection size - 1 is never dispatched: it is
\* Pending, no call was made for it, and it is not the task being dispatched.
C6_NeverBeyondCollection ==
    /\ \A i \in Rows :
          tasks[i].mint_id >= CollectionSize - 1
              => /\ tasks[i].status = Pending
                 /\ CallsOf(tasks[i].mint_id) = NoCalls
    /\ ppc \in {"update", "publish", "mint_nft"}
          => task.mint_id < CollectionSize - 1

\* the scheduler has met the task with mint_id = collection size - 1, while
\* the tasks before it were dispatched
C6_Witness ==
    /\ sold_out_at # -1
    /\ ppc = "sold_out"
    /\ task.mint_id = CollectionSize - 1
    /\ \A i \in Rows : tasks[i].mint_id < task.mint_id
                          => tasks[i].status = Minting

\* C7: once the scheduler has taken the "fully minted" branch, no step
\* dispatches a task or makes a call: not after the sleep of that branch and
\* not after a restart over the same task table.
C7_NothingAfterSoldOut ==
    [][ sold_out_at # -1
            => /\ \A i \in Rows : ~Dispatches(i)
               /\ attempt' = attempt
               /\ ppc' \notin {"update", "publish", "mint_nft"} ]_vars

\* the branch was taken before the restart and is taken again after it
C7_Witness ==
    /\ sold_out_at = 0
    /\ restarts = 1
    /\ ppc = "sold_out"

\* C8: the watcher creates a task for the deposit it is at exactly if the
\* amount is at least the price and no task has its parent_id; the task is
\* the only row added and is Pending.
C8_CreateIffPaidAndNew ==
    [][ LET parent_id == Hex(coin_record.parent_coin_info)
            paid == coin_record.amount >= Price
            new == \A i \in Rows : tasks[i].parent_id # parent_id
        IN  /\ Len(tasks') > Len(tasks)
                => /\ wpc = "create" /\ paid /\ new
                   /\ Len(tasks') = Len(tasks) + 1
                   /\ tasks'[Len(tasks')].parent_id = parent_id
                   /\ tasks'[Len(tasks')].status = Pending
            /\ (wpc = "get_task" /\ wpc' \in {"for", "create"})
                => (wpc' = "create" <=> (paid /\ new))
            /\ (wpc = "create" /\ wpc' = "for")
                => Len(tasks') = Len(tasks) + 1 ]_vars

\* the deposit c1 of exactly the price made the first task, Pending with the
\* first mint_id, and the watcher is through the records of its poll
C8_Witness ==
    /\ Len(tasks) = 1
    /\ tasks[1] = [parent_id |-> Hex("P1"),
                   to_address |-> encode_puzzle_hash("h1", "xch"),
                   mint_id |-> FirstMintId, status |-> Pending]
    /\ wpc = "for"
    /\ coin_records = <<>>

\* C9: while the balance the tick read is zero or differs from the confirmed
\* total, no step changes a task's status or makes a call, and the tick is
\* at the top of the loop.
C9_UnsettledTickDoesNothing ==
    [][ ~(standard_balance' > 0 /\ standard_balance' = standard_total')
            => /\ \A i \in Rows : tasks'[i].status = tasks[i].status
               /\ attempt' = attempt
               /\ ppc' \in {"sleep", "crashed"} ]_vars

\* a tick read spendable 5 of 10 confirmed with a task pending, and is back
\* at the top of the loop
C9_Witness ==
    /\ standard_balance = 5
    /\ standard_total = 10
    /\ ppc = "sleep"
    /\ get_pending_tasks(tasks) # <<>>

\* C10: whenever a task leaves Pending, no task with a smaller mint_id is
\* Pending.
C10_DispatchInMintIdOrder ==
    [][ \A i \in Rows :
            Dispatches(i)
                => \A j \in Rows :
                      tasks[j].mint_id < tasks[i].mint_id
                          => tasks[j].status # Pending ]_vars

\* the second task was dispatched, with a task created after the first read
\* of the pending list still pending
C10_Witness ==
    /\ ppc = "publish"
    /\ task.mint_id = FirstMintId + 1
    /\ Len(get_pending_tasks(tasks)) + 1 > queue_len
    /\ get_pending_tasks(tasks) # <<>>

\* C12: an attempt whose image store failed made no metadata store and no
\* mint_nft call, and an attempt whose metadata store failed made no mint_nft
\* call.
C12_NoCallPastFailedPublish ==
    \A m \in DOMAIN attempt :
        /\ attempt[m].image # "ok"
              => attempt[m].metadata = "none" /\ attempt[m].mint_nft = "none"
        /\ attempt[m].metadata # "ok" => attempt[m].mint_nft = "none"

\* one attempt ended at its failed image store, another at its failed
\* metadata store
C12_Witness ==
    \E m, n \in DOMAIN attempt :
        /\ attempt[m].image = "fail"
        /\ attempt[n].image = "ok" /\ attempt[n].metadata = "fail"

\* C13: no failure of a ledger, wallet or pinning call ends the loop that made
\* the call: a step at such a call never takes its coroutine to its end.
C13_CallFailureKeepsLoop ==
    [][ /\ ~(wpc \in {"poll", "for"} /\ wpc' = "crashed")
        /\ ~(ppc \in {"sleep", "publish", "mint_nft"} /\ ppc' = "crashed")
      ]_vars

\* a step of the watcher, not of the scheduler, not a restart
WatcherStep ==
    /\ <<wpc, coin_records>>' # <<wpc, coin_records>>
    /\ restarts' = restarts

\* C15: a step of the watcher leaves every existing row and the calls made as
\* they are and adds only Pending rows; a row leaves Pending only in the
\* scheduler's status write.
C15_OnlySchedulerLeavesPending ==
    [][ /\ WatcherStep
            => /\ Len(tasks') >= Len(tasks)
               /\ \A i \in Rows : tasks'[i] = tasks[i]
               /\ \A i \in 1..Len(tasks') : i > Len(tasks)
                                               => tasks'[i].status = Pending
               /\ attempt' = attempt
        /\ \A i \in Rows :
              tasks'[i] # tasks[i]
                  => /\ ppc = "update" /\ ppc' = "publish"
                     /\ tasks'[i] = [tasks[i] EXCEPT !.status = Minting]
      ]_vars

\* the watcher is at the deposit of a task that the scheduler dispatched,
\* its lookup under way, and another task is Pending
C15_Witness ==
    /\ wpc = "get_task"
    /\ coin_record.name = "c3"
    /\ \E i \in Rows : /\ tasks[i].parent_id = Hex("P2")
                       /\ tasks[i].status = Minting
    /\ \E i \in Rows : tasks[i].status = Pending

\* C16: a step dispatches at most one task, only in the status write of a
\* tick; every call made belongs to the one task the tick holds; and from its
\* mint the tick goes nowhere but to the top of the loop or to its end.
C16_OneAttemptAtATime ==
    [][ /\ Cardinality({ i \in Rows : Dispatches(i) }) <= 1
        /\ (\E i \in Rows : Dispatches(i))
              => ppc = "update" /\ ppc' = "publish"
        /\ \A m \in DOMAIN attempt' :
              CallsOf(m) # attempt'[m]
                  => /\ m = task.mint_id
                     /\ ppc \in {"update", "publish", "mint_nft"}
        /\ ppc \in {"publish", "mint_nft"}
              => ppc' \in {"publish", "mint_nft", "sleep", "crashed"}
      ]_vars

\* one task was dispatched by a tick that found two tasks pending
C16_Witness ==
    /\ ppc = "publish"
    /\ queue_len >= 2
    /\ Cardinality({ i \in Rows : tasks[i].status = Minting }) = 1
    /\ Cardinality({ i \in Rows : tasks[i].status = Pending }) >= 1

\* C17: no store and no mint_nft call was made for a task that is Pending, and
\* the task whose mint is running is recorded as Minting.
C17_MintingBeforeCalls ==
    /\ \A i \in Rows :
          tasks[i].status = Pending
              => /\ CallsOf(tasks[i].mint_id).image = "none"
                 /\ CallsOf(tasks[i].mint_id).metadata = "none"
                 /\ CallsOf(tasks[i].mint_id).mint_nft = "none"
    /\ ppc \in {"publish", "mint_nft"} => StatusIn(task.mint_id, {Minting})

\* the image store of a dispatched task is about to run and its row is
\* Minting
C17_Witness ==
    /\ ppc = "publish"
    /\ CallsOf(task.mint_id).image = "none"
    /\ \E i \in Rows : tasks[i].mint_id = task.mint_id
                          /\ tasks[i].status = Minting

\* C18: a tick that finds the image of the oldest pending task missing or not
\* larger than the minimum size ends there: no row and no call changes.
C18_BadImageChangesNothing ==
    [][ (/\ ppc = "pending2"
         /\ ppc' # "pending2"
         /\ restarts' = restarts
         /\ ~(image'.is_file /\ image'.bytes > MinImageBytes))
            => /\ ppc' = "crashed"
               /\ tasks' = tasks
               /\ attempt' = attempt ]_vars

\* the tick ended at an image of exactly the minimum size, with its task
\* Pending
C18_Witness ==
    /\ ppc = "crashed"
    /\ image = [is_file |-> TRUE, bytes |-> MinImageBytes]
    /\ task # None
    /\ StatusIn(task.mint_id, {Pending})
    /\ CallsOf(task.mint_id) = NoCalls

\* C19: no task is dispatched twice, and no row goes back to Pending.
C19_DispatchedAtMostOnce ==
    /\ \A m \in DOMAIN attempt : attempt[m].dispatched <= 1
    /\ \A i \in Rows : CallsOf(tasks[i].mint_id).dispatched = 1
                          => tasks[i].status # Pending

\* after a failed attempt and a restart, a tick found the next task pending
\* and not the task of the failed attempt
C19_Witness ==
    /\ restarts = 1
    /\ ppc = "update"
    /\ task.mint_id = FirstMintId + 1
    /\ AttemptFailed(FirstMintId)
    /\ CallsOf(FirstMintId).dispatched = 1

\* a Pending task below the end of the collection
Dispatchable(i) ==
    tasks[i].status = Pending /\ tasks[i].mint_id < CollectionSize - 1

\* C20: a failed store or mint of one task does not keep the tasks behind it
\* from being dispatched: while such a task waits, the scheduler that met the
\* failure can still take a step.
C20_FailureDoesNotBlockQueue ==
    (/\ task # None
     /\ AttemptFailed(task.mint_id)
     /\ \E i \in Rows : Dispatchable(i))
        => ENABLED Payout

C14_LosingCreateIsNoOp ==
    [][ /\ (/\ wpc = "create"
            /\ wpc' # "create"
            /\ restarts' = restarts
            /\ \E i \in Rows :
                  tasks[i].parent_id = Hex(coin_record.parent_coin_info))
               => wpc' = "for" /\ tasks' = tasks
        /\ (/\ peer_pc = "create"
            /\ peer_pc' # "create"
            /\ \E i \in Rows :
                  tasks[i].parent_id = Hex(Head(peer_records).parent_coin_info))
               => peer_pc' = "for" /\ tasks' = tasks
      ]_vars

====
